---------------------------- MODULE Spec2Model ----------------------------
(***************************************************************************)
(* scripts/spreadsheet_to_projects.py: a workbook in "Mozilla format" is   *)
(* read sheet by sheet, every recognized sheet is turned into a dictionary *)
(* repo -> project, the dictionaries are folded into a tree                *)
(* project -> data source -> repos, the tree is sorted, given its `meta`   *)
(* entries and the adhoc entries of project `unknown`, and dumped as JSON. *)
(*                                                                         *)
(* Python strings are TLA+ strings; a character is a string of length 1.   *)
(* A Python dict is a function whose domain is the set of its keys (the    *)
(* insertion order of a dict never reaches the output: the repos are       *)
(* collected in sets and json.dump sorts the keys).                        *)
(***************************************************************************)
EXTENDS Integers, Sequences, FiniteSets, TLC

VARIABLES wb, args, pc, sheet_idx, spreadsheet, projects, stdout, json_fp

vars == <<wb, args, pc, sheet_idx, spreadsheet, projects, stdout, json_fp>>

(***************************************************************************)
(* Bounds of the model.                                                    *)
(***************************************************************************)
\* Data rows (rows after the header) of the sheet of a one-sheet workbook.
MaxRows == 2
\* Sheets of a workbook of several sheets.
MaxSheets == 2
\* Data rows of a workbook of several sheets, all its sheets together.
MaxWorkbookRows == 2

(***************************************************************************)
(* Python's str and int.                                                   *)
(***************************************************************************)
\* The printable ASCII characters in code point order, 32..95 and 97..126.
AsciiLow == " !\"#$%&'()*+,-./0123456789:;<=>?@ABCDEFGHIJKLMNOPQRSTUVWXYZ[\\]^_"
AsciiHigh == "abcdefghijklmnopqrstuvwxyz{|}~"
UpperLetters == "ABCDEFGHIJKLMNOPQRSTUVWXYZ"
LowerLetters == "abcdefghijklmnopqrstuvwxyz"
Digits == "0123456789"

Chars(s) == {SubSeq(s, i, i) : i \in 1..Len(s)}

IndexIn(c, s) == CHOOSE i \in 1..Len(s) : SubSeq(s, i, i) = c

\* ord(c)
CharCode == [c \in Chars(AsciiLow) \cup Chars(AsciiHigh) |->
               IF c \in Chars(AsciiLow) THEN 31 + IndexIn(c, AsciiLow)
                                        ELSE 96 + IndexIn(c, AsciiHigh)]

\* a < b for two str: the order sorted() uses.
RECURSIVE StrLess(_, _)
StrLess(a, b) ==
    IF Len(b) = 0 THEN FALSE
    ELSE IF Len(a) = 0 THEN TRUE
    ELSE IF Head(a) = Head(b) THEN StrLess(Tail(a), Tail(b))
    ELSE CharCode[Head(a)] < CharCode[Head(b)]

\* Sorted with the order reversed: what C3 must tell from sorted().
RECURSIVE SortedDescending(_)
SortedDescending(s) ==
    IF s = {} THEN <<>>
    ELSE LET greatest == CHOOSE x \in s : \A y \in s \ {x} : StrLess(y, x)
         IN  <<greatest>> \o SortedDescending(s \ {greatest})

\* sorted(s) for a set of str.
RECURSIVE Sorted(_)
Sorted(s) ==
    IF s = {} THEN <<>>
    ELSE LET least == CHOOSE x \in s : \A y \in s \ {x} : StrLess(x, y)
         IN  <<least>> \o Sorted(s \ {least})

LowerChar(c) ==
    IF c \in Chars(UpperLetters)
    THEN LET i == IndexIn(c, UpperLetters) IN SubSeq(LowerLetters, i, i)
    ELSE c

\* s.lower()
RECURSIVE Lower(_)
Lower(s) == IF Len(s) = 0 THEN "" ELSE LowerChar(Head(s)) \o Lower(Tail(s))

\* s.replace(old, new): every occurrence, left to right, not overlapping.
RECURSIVE Replace(_, _, _)
Replace(s, old, new) ==
    IF Len(s) < Len(old) THEN s
    ELSE IF SubSeq(s, 1, Len(old)) = old
         THEN new \o Replace(SubSeq(s, Len(old) + 1, Len(s)), old, new)
         ELSE Head(s) \o Replace(Tail(s), old, new)

\* s.rfind(sub): the highest index (from 0) where sub occurs in s, or -1.
RFind(s, sub) ==
    LET hits == {i \in 0..(Len(s) - Len(sub)) : SubSeq(s, i + 1, i + Len(sub)) = sub}
    IN  IF hits = {} THEN -1 ELSE CHOOSE i \in hits : \A j \in hits : j <= i

\* s.strip(), for the whitespace of the model's characters (the space).
RECURSIVE LStrip(_)
LStrip(s) == IF Len(s) > 0 /\ Head(s) = " " THEN LStrip(Tail(s)) ELSE s

RECURSIVE RStrip(_)
RStrip(s) ==
    IF Len(s) > 0 /\ SubSeq(s, Len(s), Len(s)) = " "
    THEN RStrip(SubSeq(s, 1, Len(s) - 1)) ELSE s

Strip(s) == RStrip(LStrip(s))

\* The digits of an integer literal: digits, with single underscores between them.
DigitsOk(s) ==
    /\ Len(s) > 0
    /\ \A i \in 1..Len(s) : SubSeq(s, i, i) \in Chars(Digits) \cup {"_"}
    /\ Head(s) # "_"
    /\ SubSeq(s, Len(s), Len(s)) # "_"
    /\ \A i \in 1..(Len(s) - 1) : SubSeq(s, i, i + 1) # "__"

RECURSIVE DigitsValue(_, _)
DigitsValue(s, acc) ==
    IF Len(s) = 0 THEN acc
    ELSE IF Head(s) = "_" THEN DigitsValue(Tail(s), acc)
    ELSE DigitsValue(Tail(s), 10 * acc + (IndexIn(Head(s), Digits) - 1))

\* int(s) for a str: [ok |-> FALSE] stands for ValueError.
IntOfStr(s) ==
    LET t == Strip(s)
        signed == Len(t) > 0 /\ Head(t) \in {"+", "-"}
        body == IF signed THEN Tail(t) ELSE t
    IN  IF DigitsOk(body)
        THEN [ok |-> TRUE,
              val |-> IF signed /\ Head(t) = "-" THEN 0 - DigitsValue(body, 0)
                                                 ELSE DigitsValue(body, 0)]
        ELSE [ok |-> FALSE, val |-> 0]

\* int(x) for a float given in tenths: truncation towards zero.
IntOfFloat(tenths) ==
    IF tenths >= 0 THEN tenths \div 10 ELSE 0 - ((0 - tenths) \div 10)

RECURSIVE Decimal(_)
Decimal(n) ==
    IF n < 10 THEN SubSeq(Digits, n + 1, n + 1)
    ELSE Decimal(n \div 10) \o SubSeq(Digits, (n % 10) + 1, (n % 10) + 1)

\* str(n) for an int.
StrOfInt(n) == IF n < 0 THEN "-" \o Decimal(0 - n) ELSE Decimal(n)

(***************************************************************************)
(* Python's dict.                                                          *)
(***************************************************************************)
EmptyDict == [k \in {} |-> ""]

\* d[k] = v
Put(d, k, v) == [x \in DOMAIN d \cup {k} |-> IF x = k THEN v ELSE d[x]]

(***************************************************************************)
(* xlrd: a cell has a type and a value; a text cell holds a str, a number  *)
(* cell a float (here in tenths).  A sheet is its name and its rows, row 0 *)
(* first; a row is the sequence of its cells, column 0 first.              *)
(***************************************************************************)
Text(s) == [ctype |-> "text", value |-> s, tenths |-> 0]
Number(t) == [ctype |-> "number", value |-> "", tenths |-> t]

NRows(sheet) == Len(sheet.rows)

Cell(sheet, row, col) == sheet.rows[row + 1][col + 1]

(***************************************************************************)
(* The sheet classes.  A class is named as in the program; the methods     *)
(* take the class where the program dispatches on self.                    *)
(***************************************************************************)
Classes == {"GitHubSheet", "BugzillaSheet", "EmailSheet", "DiscourseSheet",
            "StackOverflow", "Meetup", "IRC"}

\* _init_columns: self.repo_columns
RepoColumns(cls) ==
    CASE cls = "BugzillaSheet" -> <<0, 1, 2>>
      [] cls = "DiscourseSheet" -> <<1>>
      [] OTHER -> <<0>>

\* _init_columns: self.project_column
ProjectColumn(cls) ==
    CASE cls = "BugzillaSheet" -> 3
      [] cls = "DiscourseSheet" -> 2
      [] OTHER -> 1

\* normalized_bzrepo(url, product, component)
NormalizedBzrepo(url, product, component) ==
    url \o "/bugs/buglist.cgi?" \o "product=" \o Replace(product, " ", "+")
        \o "&component=" \o Replace(component, " ", "+")

\* _get_repo(row): the Python value the row's repo is read as, a cell value.
GetRepo(cls, sheet, row) ==
    IF cls = "BugzillaSheet"
    THEN Text(NormalizedBzrepo(Cell(sheet, row, RepoColumns(cls)[1]).value,
                               Cell(sheet, row, RepoColumns(cls)[2]).value,
                               Cell(sheet, row, RepoColumns(cls)[3]).value))
    ELSE Cell(sheet, row, RepoColumns(cls)[1])

\* EmailSheet._normalize_repo
EmailNormalizeRepo(repo) ==
    IF RFind(repo, "news.mozilla.org-") = 0
    THEN Replace(repo, "news.mozilla.org-", "news.mozilla.org ")
    ELSE repo

\* DiscourseSheet._normalize_repo: str(int(repo)); int raises ValueError on a
\* str that is no integer literal.
DiscourseNormalizeRepo(repo) ==
    IF repo.ctype = "number"
    THEN [ok |-> TRUE, key |-> StrOfInt(IntOfFloat(repo.tenths))]
    ELSE LET n == IntOfStr(repo.value)
         IN  [ok |-> n.ok, key |-> IF n.ok THEN StrOfInt(n.val) ELSE ""]

\* StackOverflow.url
StackOverflowUrl == "http://stackoverflow.com/questions/tagged/"

\* StackOverflow._normalize_repo
StackOverflowNormalizeRepo(repo) == StackOverflowUrl \o repo

\* IRC._normalize_repo
IRCNormalizeRepo(repo) ==
    "irc://irc.mozilla.org/" \o repo
        \o " /home/bitergia/irc/percevalbot/logs/ChannelLogger/mozilla/#" \o repo

\* _normalize_repo(repo): [ok, key]; ok = FALSE stands for the exception raised.
NormalizeRepo(cls, repo) ==
    CASE cls = "EmailSheet" -> [ok |-> TRUE, key |-> EmailNormalizeRepo(repo.value)]
      [] cls = "DiscourseSheet" -> DiscourseNormalizeRepo(repo)
      [] cls = "StackOverflow" -> [ok |-> TRUE, key |-> StackOverflowNormalizeRepo(repo.value)]
      [] cls = "IRC" -> [ok |-> TRUE, key |-> IRCNormalizeRepo(repo.value)]
      [] OTHER -> [ok |-> TRUE, key |-> repo.value]

\* DataRows with the header row read too: what C9 must tell from the loop
\* that starts at row 1.
AllRows(sheet) == 0..(NRows(sheet) - 1)

\* The rows get_repos reads: range(1, self.sheet.nrows).
DataRows(sheet) == 1..(NRows(sheet) - 1)

\* RowProject without the substitution for the empty cell: what C5 must tell
\* from it.
RowProjectRaw(cls, sheet, row) == Cell(sheet, row, ProjectColumn(cls)).value

\* project = self.sheet.cell(row, self.project_column).value, and the
\* substitution for the empty cell.
RowProject(cls, sheet, row) ==
    LET project == Cell(sheet, row, ProjectColumn(cls)).value
    IN  IF project = "" THEN "Unknown" ELSE project

\* self.projects[repo] = project
RecordProject(dict, repo, project) == Put(dict, repo, project)

\* self.repos[project] += 1, or = 1 for a project not yet counted.
CountRepo(repos, project) ==
    IF project \in DOMAIN repos THEN Put(repos, project, repos[project] + 1)
                                ELSE Put(repos, project, 1)

\* ReadRows that skips a row whose repo cannot be normalized instead of
\* raising: what C7 must tell from the loop that lets the exception through.
RECURSIVE ReadRowsSkipping(_, _, _, _)
ReadRowsSkipping(cls, sheet, rows, self) ==
    IF rows = {} THEN self
    ELSE LET row == CHOOSE r \in rows : \A q \in rows : r <= q
             repo == NormalizeRepo(cls, GetRepo(cls, sheet, row))
         IN  IF ~repo.ok THEN ReadRowsSkipping(cls, sheet, rows \ {row}, self)
             ELSE LET cell == Cell(sheet, row, ProjectColumn(cls)).value
                      project == IF cell = "" THEN "Unknown" ELSE cell
                  IN  ReadRowsSkipping(cls, sheet, rows \ {row},
                          [projects |-> Put(self.projects, repo.key, project),
                           repos |-> IF project \in DOMAIN self.repos
                                     THEN Put(self.repos, project, self.repos[project] + 1)
                                     ELSE Put(self.repos, project, 1),
                           ok |-> TRUE])

\* The loop of get_repos over the rows left, in ascending order; self is
\* [projects, repos, ok], ok = FALSE once a row raised.
RECURSIVE ReadRows(_, _, _, _)
ReadRows(cls, sheet, rows, self) ==
    IF rows = {} THEN self
    ELSE LET row == CHOOSE r \in rows : \A q \in rows : r <= q
             repo == NormalizeRepo(cls, GetRepo(cls, sheet, row))
         IN  IF ~repo.ok THEN [self EXCEPT !.ok = FALSE]
             ELSE LET project == RowProject(cls, sheet, row)
                  IN  ReadRows(cls, sheet, rows \ {row},
                               [projects |-> RecordProject(self.projects, repo.key, project),
                                repos |-> CountRepo(self.repos, project),
                                ok |-> TRUE])

\* What get_repos prints with show_projects: the sheet's name and, for each
\* project of self.repos in sorted order, the project and its count.
Summary(sheet, repos) ==
    LET names == Sorted(DOMAIN repos)
    IN  [sheet |-> sheet.name,
         lines |-> [i \in 1..Len(names) |-> [project |-> names[i], repos |-> repos[names[i]]]]]

\* Sheet(sheet).get_repos(show_projects): [ok, projects, printed].
GetRepos(cls, sheet, show_projects) ==
    LET self == ReadRows(cls, sheet, DataRows(sheet),
                         [projects |-> EmptyDict, repos |-> EmptyDict, ok |-> TRUE])
    IN  [ok |-> self.ok,
         projects |-> self.projects,
         printed |-> IF self.ok /\ show_projects THEN <<Summary(sheet, self.repos)>>
                                                 ELSE <<>>]

(***************************************************************************)
(* main().                                                                 *)
(***************************************************************************)
\* The sheet names main() recognizes, with the class it builds for the sheet
\* and the key of spreadsheet the result is stored under.
SheetClass ==
    [Github |-> [cls |-> "GitHubSheet", datasource |-> "github"],
     Bugzilla |-> [cls |-> "BugzillaSheet", datasource |-> "bugzilla"],
     Discourse |-> [cls |-> "DiscourseSheet", datasource |-> "discourse"],
     StackOverflow |-> [cls |-> "StackOverflow", datasource |-> "stackexchange"],
     Meetup |-> [cls |-> "Meetup", datasource |-> "meetup"],
     IRC |-> [cls |-> "IRC", datasource |-> "supybot"]]
    @@ ("Mailing lists" :> [cls |-> "EmailSheet", datasource |-> "nntp"])

Recognized == DOMAIN SheetClass

\* GitOf without the suffix: what C4 must tell from it.
GitOfNoSuffix(github) == github

\* spreadsheet['git']: for every github repo, repo + '.git', same project.
GitOf(github) ==
    [g \in {repo \o ".git" : repo \in DOMAIN github} |->
        github[CHOOSE repo \in DOMAIN github : repo \o ".git" = g]]

\* The body of the loop over wb.sheets() for one sheet that get_repos read:
\* the result is stored, and for the Github sheet the git dictionary with it.
StoreResult(sheets, name, result) ==
    LET stored == Put(sheets, SheetClass[name].datasource, result)
    IN  IF name = "Github" THEN Put(stored, "git", GitOf(result)) ELSE stored

\* AddRepo that starts the project's entry anew at every repo: what C10 must
\* tell from the entry made only when the project has none.
AddRepoFresh(tree, datasource, repo, project) ==
    Put(tree, project, Put(EmptyDict, datasource, {repo}))

\* The body of the second loop: one repo of one data source is added.
AddRepo(tree, datasource, repo, project) ==
    LET t == IF project \in DOMAIN tree THEN tree ELSE Put(tree, project, EmptyDict)
        p == IF datasource \in DOMAIN t[project] THEN t[project]
                                                 ELSE Put(t[project], datasource, {})
    IN  Put(t, project, Put(p, datasource, p[datasource] \cup {repo}))

\* The second loop, over the <<datasource, repo>> items left.
RECURSIVE AddRepos(_, _, _)
AddRepos(tree, sheets, items) ==
    IF items = {} THEN tree
    ELSE LET item == CHOOSE i \in items : TRUE
         IN  AddRepos(AddRepo(tree, item[1], item[2], sheets[item[1]][item[2]]),
                      sheets, items \ {item})

Items(sheets) ==
    UNION {{<<datasource, repo>> : repo \in DOMAIN sheets[datasource]} :
           datasource \in DOMAIN sheets}

\* The third loop, for one project: every set is replaced by its sorted list.
SortRepos(entry) == [datasource \in DOMAIN entry |-> Sorted(entry[datasource])]

\* The third loop, for one project: meta is set where there is none.
SetMeta(entry, project) ==
    IF "meta" \notin DOMAIN entry THEN Put(entry, "meta", Lower(project)) ELSE entry

\* __init_unknown_project
InitUnknownProject(tree) ==
    IF "unknown" \notin DOMAIN tree THEN Put(tree, "unknown", EmptyDict) ELSE tree

\* The entries add_adhoc_repositories assigns under project `unknown`.
Adhoc ==
    [bugzillarest |-> <<"https://bugzilla.mozilla.org">>,
     discourse |-> <<"https://discourse.mozilla.org/">>,
     mediawiki |-> <<"https://wiki.mozilla.org">>,
     mozillaclub |-> <<"https://spreadsheets.google.com/feeds/cells/1QHl2bjBhMslyFzR5XXPzMLdzzx7oeSKTbgR5PM8qp64/ohaibtm/public/values?alt=json">>,
     remo |-> <<"https://reps.mozilla.org">>]

\* AssignAdhoc that appends the URL to a list already there: what C2 must
\* tell from the assignment.
AssignAdhocMerged(entry, k) ==
    Put(entry, k, IF k \in DOMAIN entry THEN entry[k] \o Adhoc[k] ELSE Adhoc[k])

\* projects_tree['unknown'][k] = [url]
AssignAdhoc(entry, k) == Put(entry, k, Adhoc[k])

\* add_adhoc_repositories(projects_tree, spreadsheet)
AddAdhocRepositories(tree) ==
    LET t == InitUnknownProject(tree)
    IN  Put(t, "unknown",
            AssignAdhoc(AssignAdhoc(AssignAdhoc(AssignAdhoc(AssignAdhoc(
                t["unknown"], "bugzillarest"), "discourse"), "mediawiki"),
                "mozillaclub"), "remo"))

(***************************************************************************)
(* The workbooks of the model.  Every cell is a text cell, but the         *)
(* category cell of a Discourse row, which is a text cell or a number      *)
(* cell.  Every sheet with rows has a header row, row 0.                   *)
(***************************************************************************)
SheetNames == Recognized \cup {"Sheet1"}

Header(name) ==
    CASE name = "Bugzilla" -> <<Text("URL"), Text("Product"), Text("Component"), Text("Project")>>
      [] name = "Discourse" -> <<Text("Name"), Text("Category"), Text("Project")>>
      [] OTHER -> <<Text("Repository"), Text("Project")>>

ProjectCells == {"", "unknown", "Mozilla"}

\* The repo cells of a data row: all the model has for the sheet (wide), or few.
RepoCells(name, wide) ==
    CASE name = "Github" ->
           {<<Text(r)>> : r \in IF wide THEN {"https://github.com/mozilla/kuma",
                                              "https://github.com/mozilla/bedrock"}
                                        ELSE {"https://github.com/mozilla/kuma"}}
      [] name = "Bugzilla" ->
           {<<Text("https://bugzilla.mozilla.org"), Text(product), Text("XML Parser")>> :
               product \in IF wide THEN {"Firefox OS", "Firefox+OS", "Core"}
                                   ELSE {"Firefox OS"}}
      [] name = "Mailing lists" ->
           {<<Text(r)>> : r \in IF wide THEN {"news.mozilla.org-dev.platform",
                                              "news.mozilla.org dev.platform",
                                              "news.mozilla.org-dev.news.mozilla.org-apps",
                                              "dev.news.mozilla.org-apps"}
                                        ELSE {"news.mozilla.org-dev.platform"}}
      [] name = "Discourse" ->
           {<<Text("Add-ons"), c>> :
               c \in IF wide THEN {Text("42"), Text(" 42"), Number(420), Number(75),
                                   Text("abc"), Text("")}
                             ELSE {Text("42"), Text("abc")}}
      [] name = "StackOverflow" ->
           {<<Text(r)>> : r \in IF wide THEN {"firefox", "css"} ELSE {"firefox"}}
      [] name = "Meetup" ->
           {<<Text(r)>> : r \in IF wide THEN {"mozilla-berlin", "Mozilla-London"}
                                        ELSE {"mozilla-berlin"}}
      [] name = "IRC" ->
           {<<Text(r)>> : r \in IF wide THEN {"devtools", "ux"} ELSE {"devtools"}}
      [] OTHER -> {<<Text("notes")>>}

Rows(name, wide) ==
    {repo \o <<Text(project)>> :
        repo \in RepoCells(name, wide),
        project \in IF wide THEN ProjectCells ELSE ProjectCells \ {"Mozilla"}}

\* The sheets called name with a header and exactly k data rows.
Sheets(name, wide, k) ==
    {[name |-> name, rows |-> <<Header(name)>> \o rows] :
        rows \in [1..k -> Rows(name, wide)]}

\* wb is book followed by at most n sheets of different names among names,
\* with at most r data rows in all.
RECURSIVE Workbook(_, _, _, _)
Workbook(book, n, names, r) ==
    \/ wb = book
    \/ /\ n > 0
       /\ \E name \in names : \E k \in 0..r : \E sheet \in Sheets(name, FALSE, k) :
             Workbook(book \o <<sheet>>, n - 1, names \ {name}, r - k)

\* wb is one sheet: without any row, or with a header and at most MaxRows
\* data rows.
OneSheetWorkbook ==
    \E name \in SheetNames :
        \/ wb = <<[name |-> name, rows |-> <<>>]>>
        \/ \E k \in 0..MaxRows : \E sheet \in Sheets(name, TRUE, k) : wb = <<sheet>>

Start ==
    /\ args \in [show_projects : BOOLEAN]
    /\ pc = "sheets"
    /\ sheet_idx = 1
    /\ spreadsheet = EmptyDict
    /\ projects = EmptyDict
    /\ stdout = <<>>
    /\ json_fp = [opened |-> FALSE, dumped |-> EmptyDict]

Init == Workbook(<<>>, MaxSheets, SheetNames, MaxWorkbookRows) /\ Start

InitSheet == OneSheetWorkbook /\ Start

\* One round of the loop over wb.sheets(): a sheet of a recognized name is
\* read with get_repos and its result stored; an exception of get_repos ends
\* the run.
ReadSheet ==
    /\ pc = "sheets"
    /\ sheet_idx <= Len(wb)
    /\ LET sheet == wb[sheet_idx]
       IN  IF sheet.name \in Recognized
           THEN LET result == GetRepos(SheetClass[sheet.name].cls, sheet,
                                       args.show_projects)
                IN  IF result.ok
                    THEN /\ spreadsheet' = StoreResult(spreadsheet, sheet.name,
                                                       result.projects)
                         /\ stdout' = stdout \o result.printed
                         /\ sheet_idx' = sheet_idx + 1
                         /\ pc' = pc
                    ELSE /\ pc' = "failed"
                         /\ UNCHANGED <<spreadsheet, stdout, sheet_idx>>
           ELSE /\ sheet_idx' = sheet_idx + 1
                /\ UNCHANGED <<spreadsheet, stdout, pc>>
    /\ UNCHANGED <<wb, args, projects, json_fp>>

\* The loop over spreadsheet: every repo is added to the set of its project
\* and data source.
Aggregate ==
    /\ pc = "sheets"
    /\ sheet_idx > Len(wb)
    /\ projects' = AddRepos(projects, spreadsheet, Items(spreadsheet))
    /\ pc' = "finalize"
    /\ UNCHANGED <<wb, args, sheet_idx, spreadsheet, stdout, json_fp>>

\* The loop over projects: the sets are sorted and meta is set.
SortAndMeta ==
    /\ pc = "finalize"
    /\ projects' = [project \in DOMAIN projects |->
                       SetMeta(SortRepos(projects[project]), project)]
    /\ pc' = "adhoc"
    /\ UNCHANGED <<wb, args, sheet_idx, spreadsheet, stdout, json_fp>>

\* projects = add_adhoc_repositories(projects, spreadsheet)
AddAdhoc ==
    /\ pc = "adhoc"
    /\ projects' = AddAdhocRepositories(projects)
    /\ pc' = "write"
    /\ UNCHANGED <<wb, args, sheet_idx, spreadsheet, stdout, json_fp>>

\* The file is opened and the tree dumped.
WriteJson ==
    /\ pc = "write"
    /\ json_fp' = [opened |-> TRUE, dumped |-> projects]
    /\ pc' = "done"
    /\ UNCHANGED <<wb, args, sheet_idx, spreadsheet, projects, stdout>>

Next == ReadSheet \/ Aggregate \/ SortAndMeta \/ AddAdhoc \/ WriteJson

Spec == Init /\ [][Next]_vars

SpecSheet == InitSheet /\ [][Next]_vars

(***************************************************************************)
(* What the properties below speak of.                                     *)
(***************************************************************************)
\* The tree in the JSON file, once written.
Output == json_fp.dumped

Elems(list) == {list[i] : i \in DOMAIN list}

\* The data rows of a sheet: the rows of index 1 and more.
RowsAfterHeader(sheet) == {row \in 0..(NRows(sheet) - 1) : row >= 1}

\* The indexes in wb of the sheets of a recognized name.
RecognizedSheets == {i \in 1..Len(wb) : wb[i].name \in Recognized}

ClassOf(sheet) == SheetClass[sheet.name].cls

DatasourceOf(sheet) == SheetClass[sheet.name].datasource

\* The repo of a row as get_repos computes it, [ok, key].
RowRepo(sheet, row) == NormalizeRepo(ClassOf(sheet), GetRepo(ClassOf(sheet), sheet, row))

\* The project cell of a row.
ProjectCell(sheet, row) == Cell(sheet, row, ProjectColumn(ClassOf(sheet))).value

\* The repo is in the output under the project and the data source.
Filed(project, datasource, repo) ==
    /\ project \in DOMAIN Output
    /\ datasource \in DOMAIN Output[project]
    /\ repo \in Elems(Output[project][datasource])

\* A Discourse sheet with a data row whose category is no integer.
Malformed(sheet) ==
    /\ sheet.name = "Discourse"
    /\ \E row \in RowsAfterHeader(sheet) : ~RowRepo(sheet, row).ok

(***************************************************************************)
(* C1.  Every project of the tree that is dumped, project `unknown`        *)
(* included, has a meta entry, the project's name in lower case.           *)
(***************************************************************************)
C1_MetaOfEveryProject ==
    pc = "done" =>
        \A project \in DOMAIN Output :
            /\ "meta" \in DOMAIN Output[project]
            /\ Output[project]["meta"] = Lower(project)

(***************************************************************************)
(* C2.  add_adhoc_repositories leaves a tree with project `unknown`, whose *)
(* five adhoc keys each hold the list of the one hardcoded URL, whatever   *)
(* was there; the other keys of `unknown` and all other projects are as    *)
(* before; and that tree, with the five entries, is what is written.       *)
(***************************************************************************)
C2_AdhocReplaces ==
    [][/\ pc = "adhoc" =>
            /\ DOMAIN projects' = DOMAIN projects \cup {"unknown"}
            /\ \A k \in {"bugzillarest", "discourse", "mediawiki", "mozillaclub", "remo"} :
                  /\ k \in DOMAIN projects'["unknown"]
                  /\ Len(projects'["unknown"][k]) = 1
                  /\ projects'["unknown"][k][1] = Adhoc[k][1]
            /\ \A project \in DOMAIN projects \ {"unknown"} :
                  projects'[project] = projects[project]
            /\ "unknown" \in DOMAIN projects =>
                  \A k \in DOMAIN projects'["unknown"] \ DOMAIN Adhoc :
                      /\ k \in DOMAIN projects["unknown"]
                      /\ projects'["unknown"][k] = projects["unknown"][k]
            /\ "unknown" \in DOMAIN projects =>
                  DOMAIN projects["unknown"] \subseteq DOMAIN projects'["unknown"]
            /\ "unknown" \notin DOMAIN projects =>
                  DOMAIN projects'["unknown"] = DOMAIN Adhoc
       /\ pc' = "done" =>
            /\ "unknown" \in DOMAIN Output'
            /\ Output' = projects
            /\ \A k \in DOMAIN Adhoc : Output'["unknown"][k] = Adhoc[k]]_vars

\* A run is done whose Discourse sheet filed a category under `unknown`, with
\* another data source of the workbook under `unknown` too.
C2_Witness ==
    /\ pc = "done"
    /\ "discourse" \in DOMAIN spreadsheet
    /\ \E repo \in DOMAIN spreadsheet["discourse"] :
          spreadsheet["discourse"][repo] = "unknown"
    /\ Output["unknown"]["discourse"] = <<"https://discourse.mozilla.org/">>
    /\ DOMAIN Output["unknown"] \ (DOMAIN Adhoc \cup {"meta"}) # {}

(***************************************************************************)
(* C3.  In the output every list of a data source is in strictly ascending *)
(* order, so without duplicates.                                           *)
(***************************************************************************)
C3_ListsAscending ==
    pc = "done" =>
        \A project \in DOMAIN Output :
            \A k \in DOMAIN Output[project] \ {"meta"} :
                \A i \in 1..(Len(Output[project][k]) - 1) :
                    StrLess(Output[project][k][i], Output[project][k][i + 1])

\* A run is done with a list of two repos that the sheet has in the other order.
C3_Witness ==
    /\ pc = "done"
    /\ wb[1].name \in Recognized
    /\ NRows(wb[1]) = 3
    /\ \E project \in DOMAIN Output :
          LET k == DatasourceOf(wb[1])
          IN  /\ k \in DOMAIN Output[project]
              /\ Len(Output[project][k]) = 2
              /\ Output[project][k][1] = RowRepo(wb[1], 2).key
              /\ Output[project][k][2] = RowRepo(wb[1], 1).key

(***************************************************************************)
(* C4.  With a Github sheet read, every repo of its result is in the       *)
(* output under github of its project and, with .git appended, under git   *)
(* of that project, and the git list of a project holds nothing else.      *)
(***************************************************************************)
C4_GitMirrorsGithub ==
    (pc = "done" /\ "github" \in DOMAIN spreadsheet) =>
        /\ \A repo \in DOMAIN spreadsheet["github"] :
              /\ Filed(spreadsheet["github"][repo], "github", repo)
              /\ Filed(spreadsheet["github"][repo], "git", repo \o ".git")
        /\ \A project \in DOMAIN Output :
              "git" \in DOMAIN Output[project] =>
                  /\ "github" \in DOMAIN Output[project]
                  /\ \A g \in Elems(Output[project]["git"]) :
                        \E repo \in Elems(Output[project]["github"]) : g = repo \o ".git"

\* A run is done whose Github sheet has two repos, of two projects.
C4_Witness ==
    /\ pc = "done"
    /\ "github" \in DOMAIN spreadsheet
    /\ \E r1, r2 \in DOMAIN spreadsheet["github"] :
          /\ spreadsheet["github"][r1] # spreadsheet["github"][r2]
          /\ Filed(spreadsheet["github"][r1], "git", r1 \o ".git")
          /\ Filed(spreadsheet["github"][r2], "git", r2 \o ".git")

(***************************************************************************)
(* C5.  As claimed: the repo of every data row with an empty project cell  *)
(* is in the output under project Unknown (whose meta is unknown) and the  *)
(* sheet's data source, and no project of the output has the empty name.   *)
(***************************************************************************)
C5_EmptyProjectFiledUnknown ==
    pc = "done" =>
        /\ \A i \in RecognizedSheets : \A row \in RowsAfterHeader(wb[i]) :
              ProjectCell(wb[i], row) = "" =>
                  /\ Filed("Unknown", DatasourceOf(wb[i]), RowRepo(wb[i], row).key)
                  /\ Output["Unknown"]["meta"] = "unknown"
        /\ "" \notin DOMAIN Output

(***************************************************************************)
(* C5, amended.  The repo of every data row with an empty project cell is  *)
(* in the output under project Unknown (whose meta is unknown) and the     *)
(* sheet's data source, unless a later row of the sheet has the same repo  *)
(* key and a project cell that is not empty; and no project of the output  *)
(* has the empty name.                                                     *)
(***************************************************************************)
C5_EmptyProjectFiledUnknownUnlessOverwritten ==
    pc = "done" =>
        /\ \A i \in RecognizedSheets : \A row \in RowsAfterHeader(wb[i]) :
              (/\ ProjectCell(wb[i], row) = ""
               /\ ~ \E later \in RowsAfterHeader(wb[i]) :
                       /\ later > row
                       /\ RowRepo(wb[i], later).key = RowRepo(wb[i], row).key
                       /\ ProjectCell(wb[i], later) # "")
              => /\ Filed("Unknown", DatasourceOf(wb[i]), RowRepo(wb[i], row).key)
                 /\ Output["Unknown"]["meta"] = "unknown"
        /\ "" \notin DOMAIN Output

\* A run is done whose sheet has two rows of one repo key, the first with a
\* project, the second without: the repo is under Unknown.
C5_Witness ==
    /\ pc = "done"
    /\ wb[1].name \in Recognized
    /\ NRows(wb[1]) = 3
    /\ ProjectCell(wb[1], 1) # ""
    /\ ProjectCell(wb[1], 2) = ""
    /\ RowRepo(wb[1], 1).key = RowRepo(wb[1], 2).key
    /\ Filed("Unknown", DatasourceOf(wb[1]), RowRepo(wb[1], 2).key)

(***************************************************************************)
(* C6.  The nntp key stored for an identifier of the Mailing lists sheet   *)
(* is the identifier with a leading news.mozilla.org- replaced by          *)
(* news.mozilla.org and a space, the rest as it was, and the identifier    *)
(* itself when it does not start so.                                       *)
(***************************************************************************)
C6_LeadingPrefixReplaced ==
    \A i \in RecognizedSheets :
        (i < sheet_idx /\ wb[i].name = "Mailing lists") =>
            \A row \in RowsAfterHeader(wb[i]) :
                LET id == Cell(wb[i], row, 0).value
                    prefix == "news.mozilla.org-"
                    expected == IF SubSeq(id, 1, Len(prefix)) = prefix
                                THEN "news.mozilla.org "
                                         \o SubSeq(id, Len(prefix) + 1, Len(id))
                                ELSE id
                IN  expected \in DOMAIN spreadsheet["nntp"]

(***************************************************************************)
(* C7.  With a Discourse sheet that has a data row whose category is no    *)
(* integer, the run never gets past that sheet and never opens the JSON    *)
(* file, wherever the sheet is in the workbook; and the file is written    *)
(* only with every sheet of the workbook read and every recognized one     *)
(* stored.                                                                 *)
(***************************************************************************)
C7_MalformedCategoryFailsRun ==
    /\ \A i \in 1..Len(wb) :
          Malformed(wb[i]) =>
              /\ ~json_fp.opened
              /\ \/ pc = "sheets" /\ sheet_idx <= i
                 \/ pc = "failed" /\ sheet_idx = i
    /\ pc \in {"write", "done"} =>
          /\ sheet_idx = Len(wb) + 1
          /\ \A i \in RecognizedSheets : DatasourceOf(wb[i]) \in DOMAIN spreadsheet
    /\ json_fp.opened => pc = "done"

\* A run has failed at a Discourse sheet that is not the first sheet, with
\* the sheet before it read and stored.
C7_Witness ==
    /\ pc = "failed"
    /\ Len(wb) = 2
    /\ Malformed(wb[2])
    /\ DOMAIN spreadsheet # {}
    /\ ~json_fp.opened

(***************************************************************************)
(* C8.  What get_repos prints for a sheet lists exactly the projects that  *)
(* have a repo in the sheet's result, each with the number of repo keys    *)
(* the result maps to it.                                                  *)
(***************************************************************************)
C8_SummaryCountsRepos ==
    \A j \in DOMAIN stdout :
        LET result == spreadsheet[SheetClass[stdout[j].sheet].datasource]
            lines == stdout[j].lines
        IN  /\ {lines[n].project : n \in DOMAIN lines}
                  = {result[repo] : repo \in DOMAIN result}
            /\ \A n \in DOMAIN lines :
                  lines[n].repos
                      = Cardinality({repo \in DOMAIN result : result[repo] = lines[n].project})

(***************************************************************************)
(* C9.  The result stored for a sheet has as keys exactly the repo keys of *)
(* the rows after the header, each mapped to the project (Unknown for an   *)
(* empty cell) of the last row with that key; and a run fails only at a    *)
(* Discourse sheet with a malformed category, never for two rows of one    *)
(* key.                                                                    *)
(***************************************************************************)
C9_LastRowWins ==
    /\ \A i \in RecognizedSheets :
          i < sheet_idx =>
              LET sheet == wb[i]
                  result == spreadsheet[DatasourceOf(sheet)]
              IN  /\ DOMAIN result
                        = {RowRepo(sheet, row).key : row \in RowsAfterHeader(sheet)}
                  /\ \A row \in RowsAfterHeader(sheet) :
                        (~ \E later \in RowsAfterHeader(sheet) :
                              /\ later > row
                              /\ RowRepo(sheet, later).key = RowRepo(sheet, row).key)
                        => result[RowRepo(sheet, row).key]
                              = IF ProjectCell(sheet, row) = "" THEN "Unknown"
                                ELSE ProjectCell(sheet, row)
    /\ pc = "failed" => Malformed(wb[sheet_idx])

\* A sheet is read whose two rows differ in the repo cells and in the project,
\* and have the same repo key.
C9_Witness ==
    /\ sheet_idx = 2
    /\ wb[1].name \in Recognized
    /\ NRows(wb[1]) = 3
    /\ GetRepo(ClassOf(wb[1]), wb[1], 1) # GetRepo(ClassOf(wb[1]), wb[1], 2)
    /\ wb[1].rows[2] # wb[1].rows[3]
    /\ RowRepo(wb[1], 1).key = RowRepo(wb[1], 2).key
    /\ ProjectCell(wb[1], 1) # ProjectCell(wb[1], 2)
    /\ DOMAIN spreadsheet[DatasourceOf(wb[1])] = {RowRepo(wb[1], 2).key}

(***************************************************************************)
(* C10.  As claimed: every repo of every result of spreadsheet is in the   *)
(* output under its project and its data source.                           *)
(***************************************************************************)
C10_NoRepoLost ==
    pc = "done" =>
        \A datasource \in DOMAIN spreadsheet :
            \A repo \in DOMAIN spreadsheet[datasource] :
                Filed(spreadsheet[datasource][repo], datasource, repo)

(***************************************************************************)
(* C10, amended.  Every repo of every result of spreadsheet is in the      *)
(* output under its project and its data source, but the Discourse         *)
(* categories of project `unknown`, whose list add_adhoc_repositories      *)
(* replaces.                                                               *)
(***************************************************************************)
C10_NoRepoLostButDiscourseOfUnknown ==
    pc = "done" =>
        \A datasource \in DOMAIN spreadsheet :
            \A repo \in DOMAIN spreadsheet[datasource] :
                ~(datasource = "discourse" /\ spreadsheet[datasource][repo] = "unknown")
                    => Filed(spreadsheet[datasource][repo], datasource, repo)

\* A run is done with two sheets stored, whose repos are under one project.
C10_Witness ==
    /\ pc = "done"
    /\ \E d1, d2 \in DOMAIN spreadsheet \ {"git"} :
          /\ d1 # d2
          /\ \E r1 \in DOMAIN spreadsheet[d1], r2 \in DOMAIN spreadsheet[d2] :
                /\ spreadsheet[d1][r1] = spreadsheet[d2][r2]
                /\ Filed(spreadsheet[d1][r1], d1, r1)
                /\ Filed(spreadsheet[d2][r2], d2, r2)

=============================================================================
